---- MODULE Spec2Model ----
(***************************************************************************)
(* Job orchestration layer of the AIPPT backend: the task manager          *)
(* (backend/services/task_manager.py), the store it writes to              *)
(* (backend/services/firestore_service.py), the outline transformer        *)
(* (AIService.flatten_outline, _reconstruct_outline_from_pages) and the    *)
(* submit endpoints of backend/controllers/project_controller.py and       *)
(* page_controller.py.                                                     *)
(*                                                                         *)
(* Several specifications share the variables:                             *)
(*   Spec        one job from its submit request to the end of its work    *)
(*               function, with the per-page fan-out of the batch jobs;    *)
(*   SpecPool    the TaskManager registry and its outer pool with several  *)
(*               jobs (FairPool adds the fairness of the thread pool);     *)
(*   SpecLedger  the page_image_versions collection under concurrent       *)
(*               version-creating jobs and set-current requests            *)
(*               (SpecSequential runs the same operations one at a time);  *)
(*   SpecOutline an outline flattened into page documents and rebuilt.     *)
(***************************************************************************)
EXTENDS Integers, Sequences, FiniteSets, TLC

\* ------------------------------------------------------------------ bounds
MaxPages == 3
MaxInner == 2
NumJobs == 5
NumRegistry == 2
NumOps == 2
NumCalls == 3
MaxNodes == 3
MaxPartPages == 2
MaxEdits == 2

\* TaskManager(max_workers=4)
OuterWorkers == 4

NoPart == ""
Parts == {NoPart, "Body"}
BatchKinds == {"DESC", "IMAGES"}
PageKinds == {"SINGLE", "EDIT"}
Kinds == BatchKinds \cup PageKinds \cup {"MATERIAL"}

VARIABLES
  \* ---- one job (Spec)
  kind,        \* which task function the job runs
  maxWorkers,  \* max_workers of the inner pool (request input)
  hasTemplate, \* use_template and a template image exists
  hasProvider, \* the AIService holds the provider the job's capability needs
  pages,       \* the project's page documents, in order_index order
  pageStatus,  \* page id -> status
  pageDesc,    \* page id -> description_content (0 = none)
  pageImg,     \* page id -> generated_image_path (0 = none)
  projStatus,  \* status of the owning project
  projByJob,   \* the job's own update_project write took effect
  task,        \* the persisted Job record
  hpc,         \* position of the submit request handler
  outline,     \* the outline argument captured by the handler
  wpc,         \* position of the work function
  wPages,      \* pages read by the work function (ids)
  wData,       \* pages_data = flatten_outline(outline)
  unit,        \* unit index -> state of the inner-pool future
  cur,         \* the unit the as_completed loop is reporting (0 = none)
  reported,    \* units the loop has consumed
  completed,   \* local counter of the work function
  failed,      \* local counter of the work function
  raised,      \* an exception reached the except clause of the work function
  target,      \* page_id argument of a single-page or edit job (0 = none)
  \* ---- registry and outer pool (SpecPool)
  sub,          \* job -> position of the submit_task call
  fut,          \* job -> state of the future in the outer executor
  queue,        \* work queue of the outer executor (FIFO)
  cbs,          \* job -> the cleanup callback is in the future's callback list
  active_tasks, \* TaskManager.active_tasks (the keys)
  jobStatus,    \* job -> persisted status of its Job record
  removals,     \* job -> number of del active_tasks[task_id] executed
  \* ---- version ledger (SpecLedger)
  versions,     \* page_image_versions, in creation order (index = id)
  generated_image_path, \* page -> the page's image pointer (0 = none)
  saved,        \* images saved so far (the next one gets path saved + 1)
  opc,          \* operation -> position in its code
  opKind,       \* operation -> job kind or "SETCUR" (the request)
  opPage,       \* operation -> page_id argument
  opVersion,    \* operation -> version_id it targets (0 = none)
  opPath,       \* operation -> image_path it saved (0 = none)
  opLen,        \* operation -> len(versions) it read
  opSeen,       \* operation -> ids streamed by set_current_page_image_version
  opResult,     \* operation -> outcome handed to its caller
  lastTarget,   \* page -> version of its last committed set-current (0 = none)
  \* ---- outline transformer (SpecOutline)
  tpc,          \* position of the outline request sequence
  tOutline,     \* the outline returned by the AI service
  tPages,       \* the page documents of the project
  tResult,      \* the outline rebuilt from the pages
  order_index,  \* page id -> order_index of the page document
  tEdits        \* page requests served since the pages were stored

inputs == <<kind, maxWorkers, hasTemplate, hasProvider>>
jobVars == <<inputs, pages, pageStatus, pageDesc, pageImg, projStatus,
             projByJob, task, hpc, outline, wpc, wPages, wData, unit, cur,
             reported, completed, failed, raised, target>>
poolVars == <<sub, fut, queue, cbs, active_tasks, jobStatus, removals>>
ledgerVars == <<versions, generated_image_path, saved, opc, opKind, opPage,
                opVersion, opPath, opLen, opSeen, opResult, lastTarget>>
outlineVars ==
  <<tpc, tOutline, tPages, tResult, order_index, tEdits>>
offJob == <<poolVars, ledgerVars, outlineVars>>
offPool == <<jobVars, ledgerVars, outlineVars>>
vars == <<jobVars, poolVars, ledgerVars, outlineVars>>

\* ------------------------------------------------------ outline transformer
\* A stored page: [id, part, oc]; oc = 0 is an empty outline_content,
\* otherwise oc is the title of the page's outline entry.
\* An outline node: [part, pages] (a part) or [title, part] (a page dict,
\* part = NoPart when the dict has no "part" key).
IsPartNode(item) == "pages" \in DOMAIN item

StampPart_none(pgs, p) ==
  [i \in 1..Len(pgs) |-> [title |-> pgs[i].title, part |-> NoPart]]

StampPart(pgs, p) ==
  [i \in 1..Len(pgs) |-> [title |-> pgs[i].title, part |-> p]]

RECURSIVE flatten_outline(_)
flatten_outline(o) ==
  IF o = <<>> THEN <<>>
  ELSE LET item == Head(o)
       IN (IF IsPartNode(item) THEN StampPart(item.pages, item.part)
           ELSE <<item>>) \o flatten_outline(Tail(o))

ClosePart(st) ==
  [st EXCEPT !.out = Append(st.out, [part |-> st.cp, pages |-> st.cpp])]

ReconstructStep_merge(st, page) ==
  IF page.oc = 0 THEN st
  ELSE LET pd == [title |-> page.oc, part |-> NoPart]
       IN IF page.part # NoPart
          THEN LET s1 == IF st.cp # NoPart /\ st.cp # page.part
                         THEN [ClosePart(st) EXCEPT !.cpp = <<>>]
                         ELSE st
               IN [s1 EXCEPT !.cp = page.part, !.cpp = Append(s1.cpp, pd)]
          ELSE [st EXCEPT !.out = Append(st.out, pd)]

ReconstructStep(st, page) ==
  IF page.oc = 0 THEN st
  ELSE LET pd == [title |-> page.oc, part |-> NoPart]
       IN IF page.part # NoPart
          THEN LET s1 == IF st.cp # NoPart /\ st.cp # page.part
                         THEN [ClosePart(st) EXCEPT !.cpp = <<>>]
                         ELSE st
               IN [s1 EXCEPT !.cp = page.part, !.cpp = Append(s1.cpp, pd)]
          ELSE LET s1 == IF st.cp # NoPart
                         THEN [ClosePart(st) EXCEPT !.cp = NoPart, !.cpp = <<>>]
                         ELSE st
               IN [s1 EXCEPT !.out = Append(s1.out, pd)]

RECURSIVE ReconstructWalk(_, _)
ReconstructWalk(pgs, st) ==
  IF pgs = <<>> THEN st
  ELSE ReconstructWalk(Tail(pgs), ReconstructStep(st, Head(pgs)))

reconstruct_outline_from_pages(pgs) ==
  LET st == ReconstructWalk(pgs, [out |-> <<>>, cp |-> NoPart, cpp |-> <<>>])
  IN IF st.cp # NoPart THEN ClosePart(st).out ELSE st.out


\* ----------------------------------------------------------------- helpers
Min(a, b) == IF a < b THEN a ELSE b

PageIds == 1..(MaxPages + 1)

Ids(pgs) == [i \in 1..Len(pgs) |-> pgs[i].id]

IdSet(pgs) == {pgs[i].id : i \in 1..Len(pgs)}

RemoveAt(s, i) == SubSeq(s, 1, i - 1) \o SubSeq(s, i + 1, Len(s))

InsertAt(s, i, x) == SubSeq(s, 1, i - 1) \o <<x>> \o SubSeq(s, i, Len(s))

\* The page lists a project can hold when the request arrives: page i has
\* id i and an outline entry titled i (or none); the first page is a bare
\* page and the others are pages of the part "Body".
PartOf(i) == IF i = 1 THEN NoPart ELSE "Body"

PageLists ==
  UNION {{[i \in 1..n |-> [id |-> i, part |-> PartOf(i),
                           oc |-> IF f[i] THEN i ELSE 0]] :
          f \in [1..n -> BOOLEAN]} : n \in 1..MaxPages}

NoRecord == [status |-> "NONE", total |-> 0, completed |-> 0, failed |-> 0,
             error |-> FALSE]

IsBatch == kind \in BatchKinds
IsPageJob == kind \in PageKinds

GeneratingStatus == IF kind = "DESC" THEN "GENERATING_DESCRIPTIONS"
                    ELSE "GENERATING_IMAGES"
DoneStatus == IF kind = "DESC" THEN "DESCRIPTIONS_GENERATED" ELSE "COMPLETED"
PageOkStatus == IF kind = "DESC" THEN "DESCRIPTION_GENERATED" ELSE "COMPLETED"

Units == DOMAIN unit
Resolved(i) == unit[i] \in {"ok", "err"}
Active(i) == unit[i] \in {"running", "generating"}
ActiveUnits == {i \in Units : Active(i)}


\* ------------------------------------------------------------ Spec: one job
poolIdle ==
  /\ sub = [j \in 1..NumJobs |-> "idle"]
  /\ fut = [j \in 1..NumJobs |-> "none"]
  /\ queue = <<>>
  /\ cbs = [j \in 1..NumJobs |-> FALSE]
  /\ active_tasks = {}
  /\ jobStatus = [j \in 1..NumJobs |-> "NONE"]
  /\ removals = [j \in 1..NumJobs |-> 0]

\* the operations and pages of the version ledger, and its state before
\* any image exists
Ops == 1..(IF NumOps > NumCalls THEN NumOps ELSE NumCalls)
LedgerPages == {1, 2}

ledgerIdle ==
  /\ versions = <<>>
  /\ generated_image_path = [p \in LedgerPages |-> 0]
  /\ saved = 0
  /\ opc = [o \in Ops |-> "idle"]
  /\ opKind = [o \in Ops |-> "NONE"]
  /\ opPage = [o \in Ops |-> 0]
  /\ opVersion = [o \in Ops |-> 0]
  /\ opPath = [o \in Ops |-> 0]
  /\ opLen = [o \in Ops |-> 0]
  /\ opSeen = [o \in Ops |-> {}]
  /\ opResult = [o \in Ops |-> "none"]
  /\ lastTarget = [p \in LedgerPages |-> 0]

outlineIdle ==
  /\ tpc = "idle"
  /\ tOutline = <<>>
  /\ tPages = <<>>
  /\ tResult = <<>>
  /\ order_index = <<>>
  /\ tEdits = 0

jobIdle ==
  /\ kind = "DESC"
  /\ maxWorkers = 1
  /\ hasTemplate = TRUE
  /\ hasProvider = TRUE
  /\ pages = <<>>
  /\ pageStatus = [p \in PageIds |-> "DRAFT"]
  /\ pageDesc = [p \in PageIds |-> 0]
  /\ pageImg = [p \in PageIds |-> 0]
  /\ projStatus = "DRAFT"
  /\ projByJob = FALSE
  /\ task = NoRecord
  /\ hpc = "begin"
  /\ outline = <<>>
  /\ wpc = "idle"
  /\ wPages = <<>>
  /\ wData = <<>>
  /\ unit = <<>>
  /\ cur = 0
  /\ reported = {}
  /\ completed = 0
  /\ failed = 0
  /\ raised = FALSE
  /\ target = 0

\* A project with 1..MaxPages pages; the descriptions endpoint is called on
\* a project whose outline exists, the image endpoints on one whose pages
\* have a description (token -1) and, for an edit, an image (token -1).
Init ==
  /\ kind \in Kinds
  /\ maxWorkers \in (IF IsBatch THEN 1..MaxInner ELSE {1})
  /\ hasTemplate \in (IF kind \in {"IMAGES", "SINGLE"} THEN BOOLEAN ELSE {TRUE})
  /\ hasProvider \in BOOLEAN
  /\ pages \in PageLists
  /\ pageStatus = [p \in PageIds |-> "DRAFT"]
  /\ pageDesc = [p \in PageIds |-> IF kind = "DESC" THEN 0 ELSE -1]
  /\ pageImg = [p \in PageIds |-> IF kind = "EDIT" THEN -1 ELSE 0]
  /\ projStatus = (IF kind = "DESC" THEN "OUTLINE_GENERATED"
                   ELSE "DESCRIPTIONS_GENERATED")
  /\ projByJob = FALSE
  /\ task = NoRecord
  /\ hpc = "begin"
  /\ outline = <<>>
  /\ wpc = "idle"
  /\ wPages = <<>>
  /\ wData = <<>>
  /\ unit = <<>>
  /\ cur = 0
  /\ reported = {}
  /\ completed = 0
  /\ failed = 0
  /\ raised = FALSE
  /\ target \in (IF IsPageJob THEN IdSet(pages) ELSE {0})
  /\ poolIdle
  /\ ledgerIdle
  /\ outlineIdle

\* ---- the submit request
\* generate_descriptions / generate_images / generate_page_image /
\* edit_page_image_route / material generation: checks, then the Job record
\* with status PENDING and its progress.  The batch endpoints call
\* create_task(task_data, user_id) although the store's signature is
\* create_task(project_id, data, user_id); the record is taken as created,
\* as it is by the page endpoints, which pass the three arguments.
CreateTask ==
  /\ hpc = "begin"
  /\ IF \/ IsBatch /\ pages = <<>>
        \/ kind = "DESC" /\ projStatus \notin
             {"OUTLINE_GENERATED", "DRAFT", "DESCRIPTIONS_GENERATED"}
        \/ IsPageJob /\ target \notin IdSet(pages)
        \/ kind = "SINGLE" /\ pageDesc[target] = 0
        \/ kind = "EDIT" /\ pageImg[target] = 0
     THEN /\ hpc' = "done"
          /\ UNCHANGED <<task, outline>>
     ELSE /\ hpc' = "created"
          /\ outline' = (IF kind \in BatchKinds \cup {"SINGLE"}
                         THEN reconstruct_outline_from_pages(pages)
                         ELSE <<>>)
          /\ task' = [status |-> "PENDING",
                      total |-> IF IsBatch THEN Len(pages) ELSE 1,
                      completed |-> 0, failed |-> 0, error |-> FALSE]
  /\ UNCHANGED <<inputs, pages, pageStatus, pageDesc,
                 pageImg, projStatus, projByJob, wpc, wPages, wData, unit,
                 cur, reported, completed, failed, raised, target, offJob>>

\* task_manager.submit_task(...): the work function is handed to the pool
\* and may start from now on.
SubmitJob ==
  /\ hpc = "created"
  /\ hpc' = (IF IsBatch THEN "submitted" ELSE "done")
  /\ wpc' = "start"
  /\ UNCHANGED <<inputs, pages, pageStatus, pageDesc,
                 pageImg, projStatus, projByJob, task, outline, wPages, wData,
                 unit, cur, reported, completed, failed, raised, target, offJob>>

\* the batch endpoints build the AI service (and read the reference files)
\* after create_task: _create_ai_service_from_request raises ValueError when
\* no API configuration is found or AIService cannot be constructed, the
\* handler's except clause answers 500 and submit_task is never reached
CreateServiceFails ==
  /\ hpc = "created"
  /\ IsBatch
  /\ hpc' = "done"
  /\ UNCHANGED <<inputs, pages, pageStatus, pageDesc,
                 pageImg, projStatus, projByJob, task, outline, wpc, wPages,
                 wData, unit, cur, reported, completed, failed, raised, target,
                 offJob>>

\* the batch endpoints write the project status after submit_task
MarkGenerating ==
  /\ hpc = "submitted"
  /\ hpc' = "done"
  /\ projStatus' = GeneratingStatus
  /\ UNCHANGED <<inputs, pages, pageStatus, pageDesc,
                 pageImg, projByJob, task, outline, wpc, wPages, wData, unit,
                 cur, reported, completed, failed, raised, target, offJob>>

\* ---- other requests on the project while the job waits for its worker
\* (create_page with order_index after the last page, delete_page)
NotStarted == task.status = "PENDING" /\ wpc \in {"idle", "start"}

NewPageId == MaxPages + 1

AddPage(pos, prt, hasOc) ==
  /\ NotStarted
  /\ NewPageId \notin IdSet(pages)
  /\ pos \in 1..(Len(pages) + 1)
  /\ pages' = InsertAt(pages, pos,
                 [id |-> NewPageId, part |-> prt,
                  oc |-> IF hasOc THEN NewPageId ELSE 0])
  /\ pageStatus' = [pageStatus EXCEPT ![NewPageId] = "DRAFT"]
  /\ UNCHANGED <<inputs, pageDesc, pageImg, projStatus,
                 projByJob, task, hpc, outline, wpc, wPages, wData, unit, cur,
                 reported, completed, failed, raised, target, offJob>>

DeletePage(pos) ==
  /\ NotStarted
  /\ pos \in 1..Len(pages)
  /\ pages' = RemoveAt(pages, pos)
  /\ UNCHANGED <<inputs, pageStatus, pageDesc, pageImg,
                 projStatus, projByJob, task, hpc, outline, wpc, wPages, wData,
                 unit, cur, reported, completed, failed, raised, target, offJob>>


\* ---- the work function, common frame
\* every task function opens with update_task(status PROCESSING) inside its
\* try block; a store write either takes effect or raises
MarkProcessing(ok) ==
  /\ wpc = "start"
  /\ IF ok
     THEN /\ task' = [task EXCEPT !.status = "PROCESSING"]
          /\ wpc' = "read"
          /\ UNCHANGED raised
     ELSE /\ wpc' = "except"
          /\ raised' = TRUE
          /\ UNCHANGED task
  /\ UNCHANGED <<inputs, pages, pageStatus, pageDesc,
                 pageImg, projStatus, projByJob, hpc, outline, wPages, wData,
                 unit, cur, reported, completed, failed, target, offJob>>

\* ---- generate_descriptions_task / generate_images_task
\* pages_data = flatten_outline(outline); pages = get_pages(...); the
\* descriptions job raises on a length mismatch, the images job when there
\* is no template image
DescPrecondition == Len(pages) = Len(flatten_outline(outline))

ReadPages ==
  /\ wpc = "read"
  /\ IsBatch
  /\ wPages' = Ids(pages)
  /\ wData' = flatten_outline(outline)
  /\ IF (kind = "DESC" /\ ~DescPrecondition) \/ (kind = "IMAGES" /\ ~hasTemplate)
     THEN wpc' = "except" /\ raised' = TRUE
     ELSE wpc' = "init" /\ UNCHANGED raised
  /\ UNCHANGED <<inputs, pages, pageStatus, pageDesc,
                 pageImg, projStatus, projByJob, task, hpc, outline, unit,
                 cur, reported, completed, failed, target, offJob>>

\* progress = {total: len(pages), completed: 0, failed: 0}; update_task
InitProgress(ok) ==
  /\ wpc = "init"
  /\ IF ok
     THEN /\ task' = [task EXCEPT !.total = Len(wPages), !.completed = 0,
                                  !.failed = 0]
          /\ wpc' = "submit"
          /\ UNCHANGED raised
     ELSE /\ wpc' = "except"
          /\ raised' = TRUE
          /\ UNCHANGED task
  /\ completed' = 0
  /\ failed' = 0
  /\ UNCHANGED <<inputs, pages, pageStatus, pageDesc,
                 pageImg, projStatus, projByJob, hpc, outline, wPages, wData,
                 unit, cur, reported, target, offJob>>

\* futures = [executor.submit(unit, page['id'], page_data, i)
\*            for i, (page, page_data) in enumerate(zip(pages, pages_data), 1)]
UnitCount == Min(Len(wPages), Len(wData))

SubmitUnits ==
  /\ wpc = "submit"
  /\ unit' = [i \in 1..UnitCount |-> "queued"]
  /\ wpc' = "loop"
  /\ UNCHANGED <<inputs, pages, pageStatus, pageDesc,
                 pageImg, projStatus, projByJob, task, hpc, outline, wPages,
                 wData, cur, reported, completed, failed, raised, target, offJob>>

\* ThreadPoolExecutor(max_workers=max_workers): a queued unit is taken, in
\* submission order, when fewer than max_workers units are in flight
SlotFree_unbounded == Cardinality(ActiveUnits) <= maxWorkers

SlotFree == Cardinality(ActiveUnits) < maxWorkers

UnitStart(i) ==
  /\ i \in Units
  /\ unit[i] = "queued"
  /\ \A k \in Units : k < i => unit[k] # "queued"
  /\ SlotFree
  /\ unit' = [unit EXCEPT ![i] = "running"]
  /\ UNCHANGED <<inputs, pages, pageStatus, pageDesc,
                 pageImg, projStatus, projByJob, task, hpc, outline, wpc,
                 wPages, wData, cur, reported, completed, failed, raised,
                 target, offJob>>

\* generate_single_image: get_page, update_page(status GENERATING); a raise
\* here is caught by the unit and returned as its error
UnitMarkGenerating(i, ok) ==
  /\ i \in Units
  /\ kind = "IMAGES"
  /\ unit[i] = "running"
  /\ IF ok
     THEN /\ pageStatus' = [pageStatus EXCEPT ![wPages[i]] = "GENERATING"]
          /\ unit' = [unit EXCEPT ![i] = "generating"]
     ELSE /\ unit' = [unit EXCEPT ![i] = "err"]
          /\ UNCHANGED pageStatus
  /\ UNCHANGED <<inputs, pages, pageDesc, pageImg,
                 projStatus, projByJob, task, hpc, outline, wpc, wPages,
                 wData, cur, reported, completed, failed, raised, target, offJob>>

\* the generation call of the unit returns (page_id, result, None) or raises
\* and the unit returns (page_id, None, str(e)); generate_page_description
\* and generate_image open with _ensure_text_provider / _ensure_image_provider,
\* whose ProviderError is raised inside the unit's try block
UnitResolve(i, ok) ==
  /\ i \in Units
  /\ unit[i] = (IF kind = "IMAGES" THEN "generating" ELSE "running")
  /\ unit' = [unit EXCEPT ![i] = IF ok /\ hasProvider THEN "ok" ELSE "err"]
  /\ UNCHANGED <<inputs, pages, pageStatus, pageDesc,
                 pageImg, projStatus, projByJob, task, hpc, outline, wpc,
                 wPages, wData, cur, reported, completed, failed, raised,
                 target, offJob>>

\* the result of unit i: derived from the outline entry it was given
UnitResult_first(i) == wData[1].title

UnitResult(i) == wData[i].title

\* for future in as_completed(futures): the page write and the counter
ReportPage(i, ok) ==
  /\ wpc = "loop"
  /\ i \in Units \ reported
  /\ Resolved(i)
  /\ cur' = i
  /\ IF ~ok
     THEN /\ wpc' = "unwind"
          /\ UNCHANGED <<pageStatus, pageDesc, pageImg, completed, failed>>
     ELSE /\ wpc' = "progress"
          /\ IF unit[i] = "err"
             THEN /\ pageStatus' = [pageStatus EXCEPT ![wPages[i]] = "FAILED"]
                  /\ failed' = failed + 1
                  /\ UNCHANGED <<pageDesc, pageImg, completed>>
             ELSE /\ pageStatus' = [pageStatus EXCEPT ![wPages[i]] = PageOkStatus]
                  /\ pageDesc' = (IF kind = "DESC"
                                  THEN [pageDesc EXCEPT ![wPages[i]] = UnitResult(i)]
                                  ELSE pageDesc)
                  /\ pageImg' = (IF kind = "IMAGES"
                                 THEN [pageImg EXCEPT ![wPages[i]] = UnitResult(i)]
                                 ELSE pageImg)
                  /\ completed' = completed + 1
                  /\ UNCHANGED failed
  /\ UNCHANGED <<inputs, pages, projStatus, projByJob,
                 task, hpc, outline, wPages, wData, unit, reported, raised,
                 target, offJob>>

ReportProgress_stale(ok) ==
  /\ wpc = "progress"
  /\ IF ok
     THEN /\ task' = [task EXCEPT !.completed = completed]
          /\ reported' = reported \cup {cur}
          /\ cur' = 0
          /\ wpc' = "loop"
     ELSE /\ wpc' = "unwind"
          /\ UNCHANGED <<task, reported, cur>>
  /\ UNCHANGED <<inputs, pages, pageStatus, pageDesc,
                 pageImg, projStatus, projByJob, hpc, outline, wPages, wData,
                 unit, completed, failed, raised,
                 target, offJob>>

\* progress['completed'] = completed; progress['failed'] = failed; update_task
ReportProgress(ok) ==
  /\ wpc = "progress"
  /\ IF ok
     THEN /\ task' = [task EXCEPT !.completed = completed, !.failed = failed]
          /\ reported' = reported \cup {cur}
          /\ cur' = 0
          /\ wpc' = "loop"
     ELSE /\ wpc' = "unwind"
          /\ UNCHANGED <<task, reported, cur>>
  /\ UNCHANGED <<inputs, pages, pageStatus, pageDesc,
                 pageImg, projStatus, projByJob, hpc, outline, wPages, wData,
                 unit, completed, failed, raised,
                 target, offJob>>

\* as_completed is exhausted (every future was yielded) and the with block
\* is left
LoopDone_break == reported = Units \/ failed > 0

LoopDone == reported = Units

ExitFanOut ==
  /\ wpc = "loop"
  /\ LoopDone
  /\ wpc' = "complete"
  /\ UNCHANGED <<inputs, pages, pageStatus, pageDesc,
                 pageImg, projStatus, projByJob, task, hpc, outline, wPages,
                 wData, unit, cur, reported, completed, failed, raised,
                 target, offJob>>

\* an exception in the loop leaves the with block: the executor's __exit__
\* waits for every unit before the except clause runs
Unwind ==
  /\ wpc = "unwind"
  /\ \A i \in Units : Resolved(i)
  /\ wpc' = "except"
  /\ raised' = TRUE
  /\ UNCHANGED <<inputs, pages, pageStatus, pageDesc,
                 pageImg, projStatus, projByJob, task, hpc, outline, wPages,
                 wData, unit, cur, reported, completed, failed, target, offJob>>

\* update_task(status COMPLETED), still inside the try block
MarkCompleted(ok) ==
  /\ wpc = "complete"
  /\ IF ok
     THEN /\ task' = [task EXCEPT !.status = "COMPLETED"]
          /\ wpc' = (IF IsBatch THEN "advance" ELSE "done")
          /\ UNCHANGED raised
     ELSE /\ wpc' = "except"
          /\ raised' = TRUE
          /\ UNCHANGED task
  /\ UNCHANGED <<inputs, pages, pageStatus, pageDesc,
                 pageImg, projStatus, projByJob, hpc, outline, wPages, wData,
                 unit, cur, reported, completed, failed, target, offJob>>

\* if failed == 0: update_project(status <done>), still inside the try block
ShouldAdvance_always(f) == f >= 0

ShouldAdvance(f) == f = 0

AdvanceProject(ok) ==
  /\ wpc = "advance"
  /\ IF ShouldAdvance(failed)
     THEN IF ok
          THEN /\ projStatus' = DoneStatus
               /\ projByJob' = TRUE
               /\ wpc' = "done"
               /\ UNCHANGED raised
          ELSE /\ wpc' = "except"
               /\ raised' = TRUE
               /\ UNCHANGED <<projStatus, projByJob>>
     ELSE /\ wpc' = "done"
          /\ UNCHANGED <<projStatus, projByJob, raised>>
  /\ UNCHANGED <<inputs, pages, pageStatus, pageDesc,
                 pageImg, task, hpc, outline, wPages, wData, unit, cur,
                 reported, completed, failed, target, offJob>>

\* except Exception as e: update_task(status FAILED, error_message); when
\* this write raises too the exception leaves the work function
MarkFailed(ok) ==
  /\ wpc = "except"
  /\ IF ok
     THEN /\ task' = [task EXCEPT !.status = "FAILED", !.error = TRUE]
          /\ wpc' = (IF IsPageJob THEN "exceptpage" ELSE "done")
     ELSE /\ wpc' = "done"
          /\ UNCHANGED task
  /\ UNCHANGED <<inputs, pages, pageStatus, pageDesc,
                 pageImg, projStatus, projByJob, hpc, outline, wPages, wData,
                 unit, cur, reported, completed, failed, raised, target, offJob>>


\* ---- generate_single_page_image_task / edit_page_image_task
OrderIndex(pgs, id) == (CHOOSE i \in 1..Len(pgs) : pgs[i].id = id) - 1

\* get_page (None raises), then update_page(status GENERATING)
PageSetup(ok) ==
  /\ wpc = "read"
  /\ IsPageJob
  /\ IF target \in IdSet(pages) /\ ok
     THEN /\ pageStatus' = [pageStatus EXCEPT ![target] = "GENERATING"]
          /\ wpc' = "body"
          /\ UNCHANGED raised
     ELSE /\ wpc' = "except"
          /\ raised' = TRUE
          /\ UNCHANGED pageStatus
  /\ wData' = (IF kind = "SINGLE" THEN flatten_outline(outline) ELSE wData)
  /\ UNCHANGED <<inputs, pages, pageDesc, pageImg,
                 projStatus, projByJob, task, hpc, outline, wPages, unit, cur,
                 reported, completed, failed, target, offJob>>

\* order_index = page_obj.get('order_index', 1)
\* if 0 < order_index <= len(pages_data): page_data = pages_data[order_index-1]
FoundPageData(oi, n) == 0 < oi /\ oi <= n

\* the checks of the body that raise: template, description, page data
\* (single page); current image (edit)
BodyPrecondition ==
  IF kind = "SINGLE"
  THEN /\ hasTemplate
       /\ pageDesc[target] # 0
       /\ FoundPageData(OrderIndex(pages, target), Len(wData))
  ELSE pageImg[target] # 0

\* the image the body produces: for a single page built from the outline
\* entry it selected, for an edit from the current image
BodyImage ==
  IF kind = "SINGLE" THEN wData[OrderIndex(pages, target)].title
  ELSE 100 + target

\* checks, AI call (generate_image / edit_image open with
\* _ensure_image_provider), save, version record; then
\* update_page(generated_image_path, status COMPLETED)
PageGenerate(ok) ==
  /\ wpc = "body"
  /\ IsPageJob
  /\ IF BodyPrecondition /\ hasProvider /\ ok
     THEN /\ wpc' = "pagewrite"
          /\ UNCHANGED raised
     ELSE /\ wpc' = "except"
          /\ raised' = TRUE
  /\ UNCHANGED <<inputs, pages, pageStatus, pageDesc,
                 pageImg, projStatus, projByJob, task, hpc, outline, wPages,
                 wData, unit, cur, reported, completed, failed, target,
                 offJob>>

PageWrite(ok) ==
  /\ wpc = "pagewrite"
  /\ IF ok
     THEN /\ pageImg' = [pageImg EXCEPT ![target] = BodyImage]
          /\ pageStatus' = [pageStatus EXCEPT ![target] = "COMPLETED"]
          /\ wpc' = "complete"
          /\ UNCHANGED raised
     ELSE /\ wpc' = "except"
          /\ raised' = TRUE
          /\ UNCHANGED <<pageImg, pageStatus>>
  /\ UNCHANGED <<inputs, pages, pageDesc, projStatus,
                 projByJob, task, hpc, outline, wPages, wData, unit, cur,
                 reported, completed, failed, target, offJob>>

\* the except clause of the two page jobs goes on with
\* update_page(status FAILED); a missing page or a store error raises
MarkPageFailed(ok) ==
  /\ wpc = "exceptpage"
  /\ wpc' = "done"
  /\ pageStatus' = (IF target \in IdSet(pages) /\ ok
                    THEN [pageStatus EXCEPT ![target] = "FAILED"]
                    ELSE pageStatus)
  /\ UNCHANGED <<inputs, pages, pageDesc, pageImg,
                 projStatus, projByJob, task, hpc, outline, wPages, wData,
                 unit, cur, reported, completed, failed, raised, target,
                 offJob>>

\* ---- generate_material_image_task: generate, save, create_material
MaterialGenerate(ok) ==
  /\ wpc = "read"
  /\ kind = "MATERIAL"
  /\ IF ok /\ hasProvider
     THEN wpc' = "complete" /\ UNCHANGED raised
     ELSE wpc' = "except" /\ raised' = TRUE
  /\ UNCHANGED <<inputs, pages, pageStatus, pageDesc,
                 pageImg, projStatus, projByJob, task, hpc, outline, wPages,
                 wData, unit, cur, reported, completed, failed, target,
                 offJob>>

Next ==
  \/ CreateTask
  \/ SubmitJob
  \/ CreateServiceFails
  \/ MarkGenerating
  \/ \E hasOc \in BOOLEAN : AddPage(Len(pages) + 1, "Body", hasOc)
  \/ \E pos \in 1..(MaxPages + 1) : DeletePage(pos)
  \/ \E ok \in BOOLEAN : MarkProcessing(ok)
  \/ ReadPages
  \/ \E ok \in BOOLEAN : InitProgress(ok)
  \/ SubmitUnits
  \/ \E i \in 1..(MaxPages + 1) : UnitStart(i)
  \/ \E i \in 1..(MaxPages + 1), ok \in BOOLEAN : UnitMarkGenerating(i, ok)
  \/ \E i \in 1..(MaxPages + 1), ok \in BOOLEAN : UnitResolve(i, ok)
  \/ \E i \in 1..(MaxPages + 1), ok \in BOOLEAN : ReportPage(i, ok)
  \/ \E ok \in BOOLEAN : ReportProgress(ok)
  \/ ExitFanOut
  \/ Unwind
  \/ \E ok \in BOOLEAN : MarkCompleted(ok)
  \/ \E ok \in BOOLEAN : AdvanceProject(ok)
  \/ \E ok \in BOOLEAN : MarkFailed(ok)
  \/ \E ok \in BOOLEAN : PageSetup(ok)
  \/ \E ok \in BOOLEAN : PageGenerate(ok)
  \/ \E ok \in BOOLEAN : PageWrite(ok)
  \/ \E ok \in BOOLEAN : MarkPageFailed(ok)
  \/ \E ok \in BOOLEAN : MaterialGenerate(ok)

Spec == Init /\ [][Next]_vars

TypeOK ==
  /\ task.status \in {"NONE", "PENDING", "PROCESSING", "COMPLETED", "FAILED"}
  /\ wpc \in {"idle", "start", "read", "init", "submit", "loop", "progress",
              "unwind", "complete", "advance", "except", "exceptpage",
              "body", "pagewrite", "done"}


\* ------------------------------------------------------- properties of Spec
Terminal == {"COMPLETED", "FAILED"}

OkUnits == {i \in Units : unit[i] = "ok"}
ErrUnits == {i \in Units : unit[i] = "err"}

\* C1: once COMPLETED or FAILED has been written to the Job record, the
\* status is never rewritten to a different value, also when a store write
\* issued after the COMPLETED write (the project-status update) raises.
C1_TerminalStatusStable ==
  [][task.status \in Terminal => task'.status = task.status]_vars

\* C2: at every snapshot of the Job record, 0 <= completed <= total,
\* 0 <= failed <= total, completed + failed <= total, and total keeps the
\* value it was given at submission.
C2_ProgressBounds ==
  /\ 0 <= task.completed /\ task.completed <= task.total
  /\ 0 <= task.failed /\ task.failed <= task.total
  /\ task.completed + task.failed <= task.total

C2_ProgressInvariant ==
  /\ []C2_ProgressBounds
  /\ [][task.status # "NONE" => task'.total = task.total]_vars

\* C3: when the fan-out of a batch job has ended, every unit has run, the
\* units whose call did not raise have their own result on their page, and
\* the progress is completed = n - k, failed = k for the k units that
\* raised, whatever the completion order.
FanOutEnded ==
  /\ IsBatch
  /\ \/ wpc \in {"complete", "advance"}
     \/ wpc = "done" /\ task.status = "COMPLETED"

PageHolds(i) ==
  /\ pageStatus[wPages[i]] = PageOkStatus
  /\ IF kind = "DESC" THEN pageDesc[wPages[i]] = UnitResult(i)
     ELSE pageImg[wPages[i]] = UnitResult(i)

C3_FailureIsolation ==
  FanOutEnded =>
    /\ \A i \in Units : Resolved(i)
    /\ \A i \in OkUnits : PageHolds(i)
    /\ task.completed = Cardinality(Units) - Cardinality(ErrUnits)
    /\ task.failed = Cardinality(ErrUnits)

C3_Witness ==
  /\ FanOutEnded
  /\ wpc = "done"
  /\ Cardinality(Units) = 3
  /\ unit[2] = "err" /\ unit[1] = "ok" /\ unit[3] = "ok"
  /\ 3 \in reported /\ task.completed = 2 /\ task.failed = 1

\* C4: a job whose work function has started never stays PROCESSING: once
\* the work function has ended the Job record is COMPLETED or FAILED.
C4_NoJobLeftProcessing ==
  wpc = "done" => task.status # "PROCESSING"

\* C5: a batch job whose fan-out ran to the end with failed > 0 and whose
\* COMPLETED write took effect is COMPLETED at the job level, and the job
\* advances the project to the done status only when failed = 0.
C5_PartialFailureCompletes ==
  /\ (IsBatch /\ wpc = "done" /\ ~raised /\ failed > 0)
       => (task.status = "COMPLETED" /\ task.failed = failed /\ ~projByJob)
  /\ projByJob => (failed = 0 /\ task.failed = 0 /\ wpc = "done"
                   /\ task.status = "COMPLETED")

C5_Witness ==
  /\ IsBatch /\ wpc = "done" /\ ~raised
  /\ failed > 0 /\ completed > 0
  /\ task.status = "COMPLETED"
  /\ projStatus = GeneratingStatus

\* C6: whenever the status of a batch job is COMPLETED, every page unit has
\* been counted: completed + failed = total.
C6_CompletedMeansAllCounted ==
  (IsBatch /\ task.status = "COMPLETED")
    => task.completed + task.failed = task.total

\* C7: at no moment are more than max_workers page units started and not
\* yet resolved; a queued unit starts only when a slot is free.
C7_ConcurrencyBound ==
  Cardinality(ActiveUnits) <= maxWorkers

C7_Witness ==
  /\ Cardinality(ActiveUnits) = maxWorkers
  /\ \E i \in Units : unit[i] = "queued"
  /\ \E i \in Units : Resolved(i)

\* the step on which a check that precedes the fan-out (or the generation
\* call of a page job) raises: the page count of the descriptions job and
\* the template image of the images job (ReadPages), get_page returning
\* None (PageSetup), the template image of the single-page job and the
\* current image of the edit job (PageGenerate)
PreconditionRaises ==
  /\ wpc' = "except"
  /\ \/ wpc = "read" /\ IsBatch
     \/ wpc = "read" /\ IsPageJob /\ target \notin IdSet(pages)
     \/ wpc = "body" /\ (IF kind = "SINGLE" THEN ~hasTemplate
                         ELSE pageImg[target] = 0)

PagesUntouched ==
  \A p \in PageIds : /\ pageStatus[p] = "DRAFT"
                     /\ pageDesc[p] = (IF kind = "DESC" THEN 0 ELSE -1)
                     /\ pageImg[p] = (IF kind = "EDIT" THEN -1 ELSE 0)

\* C11: when a precondition of a job fails before the fan-out, the job has
\* done no partial work: no page unit was invoked and no page record (status,
\* description, image path) was modified by the job.  (That the job then
\* ends FAILED depends on the handler's own write, see C4.)
C11_NoPartialWork ==
  [][PreconditionRaises => (Units = {} /\ PagesUntouched)]_vars

\* C12: a job whose AI service lacks the provider it needs fails at its
\* start: no page unit runs and the job never ends COMPLETED.
C12_ProviderErrorAtStart ==
  ~hasProvider => (ActiveUnits = {} /\ task.status # "COMPLETED")

\* C23: during the fan-out the progress counters and the persisted Job
\* record move one unit at a time and no increment is lost: whenever r units
\* have been reported, the local counters and the persisted record both
\* have completed + failed = r (between the page write and the progress
\* write of a unit the local counters are one ahead).
C23_NoLostIncrement ==
  (IsBatch /\ wpc \in {"loop", "progress", "complete", "advance"}) =>
    /\ task.completed + task.failed = Cardinality(reported)
    /\ completed + failed =
         Cardinality(reported) + (IF wpc = "progress" THEN 1 ELSE 0)
    /\ task.failed = Cardinality(reported \cap ErrUnits)

C23_Witness ==
  /\ IsBatch
  /\ wpc = "loop"
  /\ Cardinality(Units) = 3
  /\ reported = {2, 3}
  /\ unit[3] = "err"
  /\ task.completed = 1 /\ task.failed = 1

\* C24: in a batch job, whatever the order in which the units complete, the
\* outcome of a reported unit is on the page the unit was started for: that
\* page is FAILED exactly when the unit's call raised, and otherwise has the
\* success status and the result computed from the unit's own entry; when
\* the job is COMPLETED the number of its pages it marked FAILED is
\* progress.failed.
MarkedFailed == {i \in Units : pageStatus[wPages[i]] = "FAILED"}

C24_OutcomeOnOwnPage ==
  IsBatch =>
    /\ \A i \in reported :
         /\ pageStatus[wPages[i]] = "FAILED" <=> unit[i] = "err"
         /\ unit[i] = "ok" =>
              /\ pageStatus[wPages[i]] = PageOkStatus
              /\ kind = "DESC" => pageDesc[wPages[i]] = wData[i].title
              /\ kind = "IMAGES" => pageImg[wPages[i]] = wData[i].title
    /\ task.status = "COMPLETED" => Cardinality(MarkedFailed) = task.failed

C24_Witness ==
  /\ IsBatch
  /\ task.status = "COMPLETED"
  /\ Cardinality(Units) = 3
  /\ unit[1] = "err" /\ unit[2] = "ok" /\ unit[3] = "ok"
  /\ pageStatus[wPages[1]] = "FAILED"
  /\ pageStatus[wPages[3]] = PageOkStatus
  /\ task.failed = 1

\* C25: a single-page image job for an existing page with 0-based
\* order_index k whose outline entry exists finds its page data (also for
\* k = 0) and builds the image from entry k of the flattened outline, the
\* entry the batch images job pairs with that page (entry k+1 counting
\* from 1).
C25_OwnOutlineEntry ==
  (kind = "SINGLE" /\ wpc = "body" /\ target \in IdSet(pages)) =>
    LET k == OrderIndex(pages, target)
    IN k + 1 <= Len(wData) =>
         /\ FoundPageData(k, Len(wData))
         /\ BodyImage = wData[k + 1].title

C29_PageSettledFirst ==
  (IsPageJob /\ task.status \in Terminal) => pageStatus[target] # "GENERATING"

Jobs == 1..NumJobs

InitPool ==
  /\ jobIdle
  /\ poolIdle
  /\ ledgerIdle
  /\ outlineIdle

\* jobs whose work function is executing on a worker thread
Executing == {j \in Jobs : fut[j] \in {"taken", "working"}}

\* worker threads that are not idle (a worker also runs the done callbacks)
Busy == {j \in Jobs : fut[j] \in {"taken", "working", "resolved"}}

\* the request created the Job record (status PENDING); submit_task begins:
\* future = self.executor.submit(func, task_id, ...)
ExecutorSubmit(j) ==
  /\ sub[j] = "idle"
  /\ \A k \in Jobs : k < j => sub[k] = "returned"
  /\ sub' = [sub EXCEPT ![j] = "submitted"]
  /\ jobStatus' = [jobStatus EXCEPT ![j] = "PENDING"]
  /\ fut' = [fut EXCEPT ![j] = "queued"]
  /\ queue' = Append(queue, j)
  /\ UNCHANGED <<cbs, active_tasks, removals, offPool>>

\* with self.lock: self.active_tasks[task_id] = future
RegistryInsert(j) ==
  /\ sub[j] = "submitted"
  /\ sub' = [sub EXCEPT ![j] = "inserted"]
  /\ active_tasks' = active_tasks \cup {j}
  /\ UNCHANGED <<fut, queue, cbs, jobStatus, removals, offPool>>

\* _cleanup_task: with self.lock: if task_id in active_tasks: del ...
CleanupRegistry(j) == active_tasks \ {j}

CleanupCount(j) == IF j \in active_tasks THEN removals[j] + 1 ELSE removals[j]

\* future.add_done_callback(lambda f: self._cleanup_task(task_id)): the
\* callback joins the future's list, or is called at once when the future
\* is already done
AddDoneCallback_lost(j) ==
  /\ sub[j] = "inserted"
  /\ sub' = [sub EXCEPT ![j] = "returned"]
  /\ cbs' = [cbs EXCEPT ![j] = TRUE]
  /\ UNCHANGED <<active_tasks, removals>>
  /\ UNCHANGED <<fut, queue, jobStatus, offPool>>

AddDoneCallback(j) ==
  /\ sub[j] = "inserted"
  /\ sub' = [sub EXCEPT ![j] = "returned"]
  /\ IF fut[j] \in {"resolved", "released"}
     THEN /\ active_tasks' = CleanupRegistry(j)
          /\ removals' = [removals EXCEPT ![j] = CleanupCount(j)]
          /\ UNCHANGED cbs
     ELSE /\ cbs' = [cbs EXCEPT ![j] = TRUE]
          /\ UNCHANGED <<active_tasks, removals>>
  /\ UNCHANGED <<fut, queue, jobStatus, offPool>>

\* ThreadPoolExecutor(max_workers=4): an idle worker takes the oldest item
WorkerFree_five == Cardinality(Busy) <= OuterWorkers

WorkerFree == Cardinality(Busy) < OuterWorkers

WorkerTake(j) ==
  /\ queue # <<>>
  /\ Head(queue) = j
  /\ WorkerFree
  /\ queue' = Tail(queue)
  /\ fut' = [fut EXCEPT ![j] = "taken"]
  /\ UNCHANGED <<sub, cbs, active_tasks, jobStatus, removals, offPool>>

\* the work function starts: update_task(status PROCESSING), or the write
\* raises
WorkBegin(j, ok) ==
  /\ fut[j] = "taken"
  /\ fut' = [fut EXCEPT ![j] = "working"]
  /\ jobStatus' = [jobStatus EXCEPT ![j] = IF ok THEN "PROCESSING" ELSE @]
  /\ UNCHANGED <<sub, queue, cbs, active_tasks, removals, offPool>>

\* the work function ends and the future is done: it returned after its
\* terminal write (COMPLETED or FAILED), or the write of its except clause
\* raised and the status stays as it was
WorkEnd(j, st) ==
  /\ fut[j] = "working"
  /\ st \in {"COMPLETED", "FAILED", jobStatus[j]}
  /\ st = "COMPLETED" => jobStatus[j] = "PROCESSING"
  /\ fut' = [fut EXCEPT ![j] = "resolved"]
  /\ jobStatus' = [jobStatus EXCEPT ![j] = st]
  /\ UNCHANGED <<sub, queue, cbs, active_tasks, removals, offPool>>

\* the worker invokes the callbacks of the done future, then is idle again
RunCallbacks(j) ==
  /\ fut[j] = "resolved"
  /\ fut' = [fut EXCEPT ![j] = "released"]
  /\ IF cbs[j]
     THEN /\ active_tasks' = CleanupRegistry(j)
          /\ removals' = [removals EXCEPT ![j] = CleanupCount(j)]
     ELSE UNCHANGED <<active_tasks, removals>>
  /\ UNCHANGED <<sub, queue, cbs, jobStatus, offPool>>

is_task_active(j) == j \in active_tasks

\* SpecPool: NumJobs jobs, one more than the pool has workers; every work
\* function runs to its COMPLETED write
NextPool ==
  \/ \E j \in Jobs : ExecutorSubmit(j)
  \/ \E j \in Jobs : RegistryInsert(j)
  \/ \E j \in Jobs : AddDoneCallback(j)
  \/ \E j \in Jobs : WorkerTake(j)
  \/ \E j \in Jobs : WorkBegin(j, TRUE)
  \/ \E j \in Jobs : WorkEnd(j, "COMPLETED")
  \/ \E j \in Jobs : RunCallbacks(j)

SpecPool == InitPool /\ [][NextPool]_vars

\* every thread of the pool keeps running and every call of a work function
\* returns or raises
FairPool ==
  /\ InitPool
  /\ [][NextPool]_vars
  /\ \A j \in Jobs :
       /\ WF_vars(WorkerTake(j))
       /\ WF_vars(WorkBegin(j, TRUE))
       /\ WF_vars(WorkEnd(j, "COMPLETED"))
       /\ WF_vars(RunCallbacks(j))

\* SpecRegistry: the first NumRegistry jobs, with every way a work function
\* can start and end (store writes that raise included)
RegistryJobs == 1..NumRegistry

NextRegistry ==
  \/ \E j \in RegistryJobs : ExecutorSubmit(j)
  \/ \E j \in RegistryJobs : RegistryInsert(j)
  \/ \E j \in RegistryJobs : AddDoneCallback(j)
  \/ \E j \in RegistryJobs : WorkerTake(j)
  \/ \E j \in RegistryJobs, ok \in BOOLEAN : WorkBegin(j, ok)
  \/ \E j \in RegistryJobs,
        st \in {"PENDING", "PROCESSING", "COMPLETED", "FAILED"} : WorkEnd(j, st)
  \/ \E j \in RegistryJobs : RunCallbacks(j)

SpecRegistry == InitPool /\ [][NextRegistry]_vars

\* ------------------------------------- properties of SpecPool, SpecRegistry
\* C8: submit_task never waits for a worker (its next statement can always
\* run), at most 4 work functions execute at any moment, a job that waits
\* in the queue keeps status PENDING, and it is eventually started.
InSubmit(j) == sub[j] \in {"submitted", "inserted"}

C8_NonBlocking ==
  \A j \in Jobs : InSubmit(j) => ENABLED (RegistryInsert(j) \/ AddDoneCallback(j))

C8_PoolBound == Cardinality(Executing) <= OuterWorkers

C8_PendingWhileQueued ==
  \A j \in Jobs : fut[j] = "queued" => jobStatus[j] = "PENDING"

C8_OuterPool ==
  /\ [](C8_NonBlocking /\ C8_PoolBound /\ C8_PendingWhileQueued)
  /\ \A j \in Jobs : (fut[j] = "queued") ~> (fut[j] # "queued")

C8_Witness ==
  /\ Cardinality(Executing) = OuterWorkers
  /\ \E j \in Jobs : /\ fut[j] = "queued"
                     /\ sub[j] = "returned"
                     /\ jobStatus[j] = "PENDING"

\* C9: the registry entry of a job is removed exactly once, never before it
\* was inserted, whatever the way the work function ended: once submit_task
\* has returned and the callbacks of the done future have run, the job is
\* not in active_tasks.
C9_CleanupOnce ==
  \A j \in Jobs :
    /\ removals[j] <= 1
    /\ j \in active_tasks => (sub[j] \in {"inserted", "returned"}
                              /\ removals[j] = 0)
    /\ (fut[j] = "released" /\ sub[j] = "returned")
         => (j \notin active_tasks /\ removals[j] = 1)

C9_Witness ==
  \E j, k \in Jobs :
    /\ fut[j] = "released" /\ sub[j] = "returned"
    /\ fut[k] = "released" /\ sub[k] = "returned"
    /\ jobStatus[j] = "PROCESSING" /\ jobStatus[k] = "COMPLETED"
    /\ cbs[j] /\ ~cbs[k]
    /\ active_tasks = {}

\* C10: is_task_active(job_id) is true if and only if the job occupies a
\* worker of the pool.
C10_ActiveIffOnWorker ==
  \A j \in Jobs : is_task_active(j) <=> j \in Busy


\* ----------------------------------------------- SpecLedger: version ledger
\* Operations 1..NumOps run concurrently on two pages of one owner: the tail
\* of a single-page job or an edit job (save, list, create, set current,
\* page write), the page write of a unit of the batch images job, and the
\* set-current request.  They are numbered in the order they start.
\* A version's id is its index in versions; document ids are uuids, so the
\* id NoVersion is never given to a version.
Started(o) == \A n \in Ops : n < o => opc[n] # "idle"

JobOps == {"SINGLE", "EDIT", "IMAGES"}
NoVersion == 0

VersionsOf(p) == {v \in DOMAIN versions : versions[v].page_id = p}
CurrentOf(p) == {v \in VersionsOf(p) : versions[v].is_current}

InitLedger ==
  /\ ledgerIdle
  /\ jobIdle
  /\ poolIdle
  /\ outlineIdle

\* image_path = file_service.save_generated_image(image, project_id, page_id):
\* a new file name for every saved image.  The edit endpoint accepts a page
\* only when it has a generated_image_path.
SaveImage(o, k, p) ==
  /\ opc[o] = "idle"
  /\ Started(o)
  /\ k \in JobOps
  /\ k = "EDIT" => generated_image_path[p] # 0
  /\ saved' = saved + 1
  /\ opKind' = [opKind EXCEPT ![o] = k]
  /\ opPage' = [opPage EXCEPT ![o] = p]
  /\ opPath' = [opPath EXCEPT ![o] = saved + 1]
  /\ opc' = [opc EXCEPT ![o] = IF k = "IMAGES" THEN "page" ELSE "list"]
  /\ UNCHANGED <<versions, generated_image_path, opVersion, opLen, opSeen,
                 opResult, lastTarget, jobVars, poolVars, outlineVars>>

\* versions = list_page_image_versions(page_id, user_id)
ListVersions(o) ==
  /\ opc[o] = "list"
  /\ opLen' = [opLen EXCEPT ![o] = Cardinality(VersionsOf(opPage[o]))]
  /\ opc' = [opc EXCEPT ![o] = "create"]
  /\ UNCHANGED <<versions, generated_image_path, saved, opKind, opPage,
                 opVersion, opPath, opSeen, opResult, lastTarget, jobVars,
                 poolVars, outlineVars>>

\* version_number = len(versions) + 1; is_current True;
\* version_id = create_page_image_version(version_data, user_id)
CreateVersion(o) ==
  /\ opc[o] = "create"
  /\ versions' = Append(versions, [page_id |-> opPage[o],
                                   version_number |-> opLen[o] + 1,
                                   is_current |-> TRUE,
                                   image_path |-> opPath[o]])
  /\ opVersion' = [opVersion EXCEPT ![o] = Len(versions) + 1]
  /\ opc' = [opc EXCEPT ![o] = "query"]
  /\ UNCHANGED <<generated_image_path, saved, opKind, opPage, opPath, opLen,
                 opSeen, opResult, lastTarget, jobVars, poolVars, outlineVars>>

\* the set-current request: get_page, then the store call with the
\* version_id of the URL, whatever it is
SetCurrentRequest(o, p, v) ==
  /\ opc[o] = "idle"
  /\ Started(o)
  /\ v \in DOMAIN versions \cup {NoVersion}
  /\ opKind' = [opKind EXCEPT ![o] = "SETCUR"]
  /\ opPage' = [opPage EXCEPT ![o] = p]
  /\ opVersion' = [opVersion EXCEPT ![o] = v]
  /\ opc' = [opc EXCEPT ![o] = "query"]
  /\ UNCHANGED <<versions, generated_image_path, saved, opPath, opLen, opSeen,
                 opResult, lastTarget, jobVars, poolVars, outlineVars>>

\* set_current_page_image_version, the query: the versions of the page
StreamVersions(o) ==
  /\ opc[o] = "query"
  /\ opSeen' = [opSeen EXCEPT ![o] = VersionsOf(opPage[o])]
  /\ opc' = [opc EXCEPT ![o] = "commit"]
  /\ UNCHANGED <<versions, generated_image_path, saved, opKind, opPage,
                 opVersion, opPath, opLen, opResult, lastTarget, jobVars,
                 poolVars, outlineVars>>

\* batch.update(ref, ...) requires the document: the commit of a batch that
\* updates a missing document fails as a whole with NotFound
DocExists_any(v) == TRUE

DocExists(v) == v \in DOMAIN versions

\* the writes of the batch, in order: is_current False on every version
\* streamed, then is_current True on document(version_id)
BatchWrites_keep(seen, v) ==
  [w \in DOMAIN versions |->
     IF w = v THEN [versions[w] EXCEPT !.is_current = TRUE] ELSE versions[w]]

BatchWrites(seen, v) ==
  [w \in DOMAIN versions |->
     IF w = v THEN [versions[w] EXCEPT !.is_current = TRUE]
     ELSE IF w \in seen THEN [versions[w] EXCEPT !.is_current = FALSE]
     ELSE versions[w]]

\* batch.commit(): atomic.  On NotFound the job's except clause runs and the
\* request returns error_response('SERVER_ERROR', ..., 500).
CommitBatch(o) ==
  /\ opc[o] = "commit"
  /\ IF DocExists(opVersion[o])
     THEN /\ versions' = BatchWrites(opSeen[o], opVersion[o])
          /\ lastTarget' = [lastTarget EXCEPT ![opPage[o]] = opVersion[o]]
          /\ opc' = [opc EXCEPT ![o] = IF opKind[o] = "SETCUR" THEN "lookup"
                                       ELSE "page"]
          /\ UNCHANGED opResult
     ELSE /\ opResult' = [opResult EXCEPT ![o] = "error"]
          /\ opc' = [opc EXCEPT ![o] = "done"]
          /\ UNCHANGED <<versions, lastTarget>>
  /\ UNCHANGED <<generated_image_path, saved, opKind, opPage, opVersion,
                 opPath, opLen, opSeen, jobVars, poolVars, outlineVars>>

\* update_page(generated_image_path = image_path, status COMPLETED): the
\* statement after the version record in the single-page and edit jobs, the
\* only write of the batch images job for a page whose unit succeeded
WritePagePath(o) ==
  /\ opc[o] = "page"
  /\ generated_image_path' =
       [generated_image_path EXCEPT ![opPage[o]] = opPath[o]]
  /\ opResult' = [opResult EXCEPT ![o] = "success"]
  /\ opc' = [opc EXCEPT ![o] = "done"]
  /\ UNCHANGED <<versions, saved, opKind, opPage, opVersion, opPath, opLen,
                 opSeen, lastTarget, jobVars, poolVars, outlineVars>>

\* the request after the store call: versions = list_page_image_versions(
\* page_id, user_id); target_version = the one with id == version_id, or
\* None; if target_version: update_page(generated_image_path); then
\* success_response(page) in both cases
TargetVersion(p, v) == IF v \in VersionsOf(p) THEN v ELSE NoVersion

RequestWritePage(o) ==
  /\ opc[o] = "lookup"
  /\ LET t == TargetVersion(opPage[o], opVersion[o])
     IN generated_image_path' =
          (IF t # NoVersion
           THEN [generated_image_path EXCEPT ![opPage[o]] =
                   versions[t].image_path]
           ELSE generated_image_path)
  /\ opResult' = [opResult EXCEPT ![o] = "success"]
  /\ opc' = [opc EXCEPT ![o] = "done"]
  /\ UNCHANGED <<versions, saved, opKind, opPage, opVersion, opPath, opLen,
                 opSeen, lastTarget, jobVars, poolVars, outlineVars>>

OpStep(o) ==
  \/ ListVersions(o)
  \/ CreateVersion(o)
  \/ StreamVersions(o)
  \/ CommitBatch(o)
  \/ WritePagePath(o)
  \/ RequestWritePage(o)

NextLedger ==
  \/ \E o \in 1..NumOps, k \in JobOps, p \in LedgerPages : SaveImage(o, k, p)
  \/ \E o \in 1..NumOps, p \in LedgerPages, v \in 0..NumOps :
       SetCurrentRequest(o, p, v)
  \/ \E o \in 1..NumOps : OpStep(o)

SpecLedger == InitLedger /\ [][NextLedger]_vars

\* the same operations called one after the other, each set-current request
\* with a version of its own page
Quiet == \A o \in Ops : opc[o] \in {"idle", "done"}

NextSequential ==
  \/ /\ Quiet
     /\ \E o \in 1..NumCalls, k \in JobOps, p \in LedgerPages :
          SaveImage(o, k, p)
  \/ /\ Quiet
     /\ \E o \in 1..NumCalls, p \in LedgerPages : \E v \in VersionsOf(p) :
          SetCurrentRequest(o, p, v)
  \/ \E o \in 1..NumCalls : OpStep(o)

SpecSequential == InitLedger /\ [][NextSequential]_vars

\* the operations called one after the other, a set-current request with
\* whatever version_id its URL carries: a version of the page, a version of
\* another page, or no version
NextRequests ==
  \/ /\ Quiet
     /\ \E o \in 1..NumCalls, k \in JobOps, p \in LedgerPages :
          SaveImage(o, k, p)
  \/ /\ Quiet
     /\ \E o \in 1..NumCalls, p \in LedgerPages, v \in 0..NumCalls :
          SetCurrentRequest(o, p, v)
  \/ \E o \in 1..NumCalls : OpStep(o)

SpecRequests == InitLedger /\ [][NextRequests]_vars


\* ------------------------------------ properties of SpecLedger, SpecSequential
\* C13: in every state of the version store, between the writes of a
\* version-creating job included, a page has at most one current version.
C13_AtMostOneCurrent ==
  \A p \in LedgerPages : Cardinality(CurrentOf(p)) <= 1

\* C14: the version numbers of a page start at 1 and increase strictly in
\* creation order (so they are pairwise distinct and never reused), under
\* every interleaving of the version-creating jobs of the page.
C14_VersionNumbers ==
  \A p \in LedgerPages : \A v \in VersionsOf(p) :
    /\ versions[v].version_number >= 1
    /\ (\A w \in VersionsOf(p) : v <= w) => versions[v].version_number = 1
    /\ \A w \in VersionsOf(p) :
         v < w => versions[v].version_number < versions[w].version_number

\* C15: after N create-version + set-current calls made one after the other
\* on a page, exactly one version of the page is current, it is the one the
\* last set-current call targeted, and the version numbers are exactly 1..N.
C15_SequentialLedger ==
  Quiet =>
    \A p \in LedgerPages :
      LET N == Cardinality(VersionsOf(p))
      IN /\ N > 0 => CurrentOf(p) = {lastTarget[p]}
         /\ {versions[v].version_number : v \in VersionsOf(p)} = 1..N

C15_Witness ==
  /\ Quiet
  /\ \E p \in LedgerPages :
       /\ Cardinality(VersionsOf(p)) >= 2
       /\ \E v \in VersionsOf(p) : lastTarget[p] = v /\ v # Len(versions)
       /\ \E o \in Ops : opKind[o] = "SETCUR" /\ opResult[o] = "success"

C17_PointerFollowsTarget ==
  [][\A o \in Ops :
       (opKind[o] = "SETCUR" /\ opResult[o] # "success"
          /\ opResult'[o] = "success")
       => generated_image_path'[opPage[o]] =
            versions'[opVersion[o]].image_path]_vars

\* C18: an image path written to a page by a job is the image_path of one of
\* the page's versions (the version is written before the page).
C18_PointerHasVersion ==
  \A p \in LedgerPages :
    generated_image_path[p] # 0 =>
      \E v \in VersionsOf(p) : versions[v].image_path = generated_image_path[p]

\* C28: the commit of set_current_page_image_version(page_id, version_id)
\* changes is_current only on versions of page_id; when version_id is a
\* version of another page it is not made current and the flags of
\* page_id's versions stay as they were.
C28_OnlyOwnVersions ==
  [][\A o \in Ops :
       (opc[o] = "commit" /\ opc'[o] # "commit") =>
         /\ \A w \in DOMAIN versions :
              versions'[w].is_current # versions[w].is_current =>
                versions[w].page_id = opPage[o]
         /\ (/\ opVersion[o] \in DOMAIN versions
             /\ versions[opVersion[o]].page_id # opPage[o]) =>
              \A w \in VersionsOf(opPage[o]) : versions'[w] = versions[w]]_vars


\* ------------------------------------------- SpecOutline: outline round trip
\* The outlines the AI service can return: up to MaxNodes top-level nodes,
\* each a bare page or a part named "A" or "Body" with 0..MaxPartPages pages;
\* the pages are titled 1, 2, ... in outline order.
PartNames == {"A", "Body"}

NodeShapes ==
  {[part |-> NoPart, n |-> 1]}
    \cup {[part |-> q, n |-> k] : q \in PartNames, k \in 0..MaxPartPages}

RECURSIVE Titled(_, _)
Titled(shape, first) ==
  IF shape = <<>> THEN <<>>
  ELSE LET h == Head(shape)
           node == IF h.part = NoPart
                   THEN [title |-> first, part |-> NoPart]
                   ELSE [part |-> h.part,
                         pages |-> [i \in 1..h.n |->
                                      [title |-> first + i - 1,
                                       part |-> NoPart]]]
       IN <<node>> \o Titled(Tail(shape), first + h.n)

Outlines ==
  {Titled(shape, 1) : shape \in UNION {[1..m -> NodeShapes] : m \in 0..MaxNodes}}

InitOutline ==
  /\ outlineIdle
  /\ jobIdle
  /\ poolIdle
  /\ ledgerIdle

\* outline = ai_service.generate_outline(project_context) (or
\* parse_outline_text)
GenerateOutline(o) ==
  /\ tpc = "idle"
  /\ tOutline' = o
  /\ tpc' = "outlined"
  /\ UNCHANGED <<tPages, tResult, order_index, tEdits, jobVars, poolVars,
                 ledgerVars>>

\* for i, page_data in enumerate(pages_data): the index given to the i-th
\* entry (entries are numbered from 1 here)
StoredIndex_one(i) == i

StoredIndex(i) == i - 1

\* pages_data = flatten_outline(outline), which copies the pages it stamps;
\* one page document per entry with order_index = i, part =
\* page_data.get('part'), outline_content = {title, points}.  The endpoint
\* calls create_page(page_dict, user_id) although the store's signature is
\* create_page(project_id, data, user_id); the documents are taken as
\* created.
StoredPages(pages_data) ==
  [i \in 1..Len(pages_data) |-> [id |-> i, part |-> pages_data[i].part,
                                 oc |-> pages_data[i].title]]

StorePages ==
  /\ tpc = "outlined"
  /\ LET pages_data == flatten_outline(tOutline)
     IN /\ tPages' = StoredPages(pages_data)
        /\ order_index' = [i \in 1..Len(pages_data) |-> StoredIndex(i)]
  /\ tpc' = "stored"
  /\ UNCHANGED <<tOutline, tResult, tEdits, jobVars, poolVars, ledgerVars>>

\* outline = _reconstruct_outline_from_pages(pages), as every generation
\* endpoint does before it submits its job
RebuildOutline ==
  /\ tpc = "stored"
  /\ tResult' = reconstruct_outline_from_pages(tPages)
  /\ tpc' = "rebuilt"
  /\ UNCHANGED <<tOutline, tPages, order_index, tEdits, jobVars, poolVars,
                 ledgerVars>>

NextOutline ==
  \/ \E o \in Outlines : GenerateOutline(o)
  \/ StorePages
  \/ RebuildOutline

SpecOutline == InitOutline /\ [][NextOutline]_vars


\* ------------------------------------------------ properties of SpecOutline
PartNodes(o) == {i \in 1..Len(o) : IsPartNode(o[i])}

\* the outline without its parts that have no pages
DropEmptyParts(o) ==
  SelectSeq(o, LAMBDA item : IsPartNode(item) => item.pages # <<>>)

\* a part name that occurs again after something else came in between
RepeatedApart(o) ==
  \E i, j \in PartNodes(o) :
    /\ i < j
    /\ o[i].part = o[j].part
    /\ \E k \in (i + 1)..(j - 1) : ~IsPartNode(o[k]) \/ o[k].part # o[i].part

\* a part name that occurs in two part nodes
RepeatedName(o) ==
  \E i, j \in PartNodes(o) : i < j /\ o[i].part = o[j].part

\* C19, as stated: for an outline in which no part name is repeated
\* non-consecutively, rebuilding the outline from the pages stored from its
\* flattening gives the same outline, parts without pages left out.
C19_RoundTripAsStated ==
  (tpc = "rebuilt" /\ ~RepeatedApart(tOutline))
    => tResult = DropEmptyParts(tOutline)

\* C19, amended: for an outline in which no part name is repeated at all
\* (neither consecutively nor non-consecutively), rebuilding the outline from
\* the pages stored from its flattening gives the same outline, parts
\* without pages left out.
C19_RoundTrip ==
  (tpc = "rebuilt" /\ ~RepeatedName(tOutline))
    => tResult = DropEmptyParts(tOutline)

C19_Witness ==
  /\ tpc = "rebuilt"
  /\ ~RepeatedName(tOutline)
  /\ \E i, j \in PartNodes(tOutline) :
       i < j /\ tOutline[i].pages # <<>> /\ Len(tOutline[j].pages) = 2
  /\ \E i \in 1..Len(tOutline) : ~IsPartNode(tOutline[i])
  /\ tResult = tOutline

\* the outline [part A [p1], page p2, part A [p3]]
GapOutline ==
  <<[part |-> "A", pages |-> <<[title |-> 1, part |-> NoPart]>>],
    [title |-> 2, part |-> NoPart],
    [part |-> "A", pages |-> <<[title |-> 3, part |-> NoPart]>>]>>

\* C20: the rebuilt outline keeps the pages in their stored order, each
\* group being a run of consecutive pages with one part name, so no group
\* is merged across a gap; the outline [A [p1], p2, A [p3]] is stored as
\* p1(A), p2(no part), p3(A) and rebuilt as three groups (A, none, A).
C20_NoMergeAcrossGap ==
  tpc = "rebuilt" =>
    /\ flatten_outline(tResult) =
         [i \in 1..Len(tPages) |-> [title |-> tPages[i].oc,
                                    part |-> tPages[i].part]]
    /\ \A i \in PartNodes(tResult) : tResult[i].pages # <<>>
    /\ tOutline = GapOutline =>
         /\ tPages = <<[id |-> 1, part |-> "A", oc |-> 1],
                       [id |-> 2, part |-> NoPart, oc |-> 2],
                       [id |-> 3, part |-> "A", oc |-> 3]>>
         /\ tResult = GapOutline

C20_Witness == tpc = "rebuilt" /\ tOutline = GapOutline /\ Len(tResult) = 3


\* the pages of an outline, each with the part it stands in
OutlineEntries(o) ==
  {<<o[k].title, NoPart>> : k \in (1..Len(o)) \ PartNodes(o)}
    \cup UNION {{<<o[k].pages[j].title, o[k].part>> :
                   j \in 1..Len(o[k].pages)} : k \in PartNodes(o)}

\* the outline [Intro, part Body [P1, P2]]
IntroBodyOutline ==
  <<[title |-> 1, part |-> NoPart],
    [part |-> "Body", pages |-> <<[title |-> 2, part |-> NoPart],
                                  [title |-> 3, part |-> NoPart]>>]>>

EditableOutlines == {o \in Outlines : Len(flatten_outline(o)) <= MaxPages}

\* .order_by('order_index') over the stored pages
RECURSIVE SortPages(_, _)
SortPages(S, oi) ==
  IF S = {} THEN <<>>
  ELSE LET p == CHOOSE q \in S : \A r \in S : oi[q.id] <= oi[r.id]
       IN <<p>> \o SortPages(S \ {p}, oi)

PageSet(pgs) == {pgs[i] : i \in 1..Len(pgs)}

\* uuid4 of a new page: an id no stored page has
FreshId(pgs) == CHOOSE id \in 1..(Len(pgs) + 1) : id \notin IdSet(pgs)

\* POST /pages: the page is created with the order_index of the request body
\* and every other page at or after that index is moved up by one
create_page(idx, prt) ==
  /\ tpc = "stored"
  /\ tEdits < MaxEdits
  /\ LET page_id == FreshId(tPages)
         created == [id |-> page_id, part |-> prt, oc |-> 0]
         oi == [id \in IdSet(tPages) \cup {page_id} |->
                  IF id = page_id THEN idx
                  ELSE IF order_index[id] >= idx THEN order_index[id] + 1
                  ELSE order_index[id]]
     IN /\ order_index' = oi
        /\ tPages' = SortPages(PageSet(tPages) \cup {created}, oi)
  /\ tEdits' = tEdits + 1
  /\ UNCHANGED <<tpc, tOutline, tResult, jobVars, poolVars, ledgerVars>>

\* DELETE /pages/<page_id>: the page document is deleted; the other pages
\* are not written
delete_page(page_id) ==
  /\ tpc = "stored"
  /\ tEdits < MaxEdits
  /\ page_id \in IdSet(tPages)
  /\ order_index' = [id \in IdSet(tPages) \ {page_id} |-> order_index[id]]
  /\ tPages' = SelectSeq(tPages, LAMBDA p : p.id # page_id)
  /\ tEdits' = tEdits + 1
  /\ UNCHANGED <<tpc, tOutline, tResult, jobVars, poolVars, ledgerVars>>

\* the list of all page ids with the ids at positions i and j exchanged
SwappedOrder(pgs, i, j) ==
  [k \in 1..Len(pgs) |-> IF k = i THEN pgs[j].id
                         ELSE IF k = j THEN pgs[i].id ELSE pgs[k].id]

\* PUT /projects/<id> with pages_order: page pages_order[index] gets
\* order_index = index
update_project(pages_order) ==
  /\ tpc = "stored"
  /\ tEdits < MaxEdits
  /\ LET oi == [id \in IdSet(tPages) |->
                  (CHOOSE k \in 1..Len(pages_order) : pages_order[k] = id) - 1]
     IN /\ order_index' = oi
        /\ tPages' = SortPages(PageSet(tPages), oi)
  /\ tEdits' = tEdits + 1
  /\ UNCHANGED <<tpc, tOutline, tResult, jobVars, poolVars, ledgerVars>>

\* POST /refine/outline: the pages are deleted and created again from the
\* refined outline, numbered from 0
refine_outline(o) ==
  /\ tpc = "stored"
  /\ tEdits < MaxEdits
  /\ tOutline' = o
  /\ LET pages_data == flatten_outline(o)
     IN /\ tPages' = StoredPages(pages_data)
        /\ order_index' = [i \in 1..Len(pages_data) |-> StoredIndex(i)]
  /\ tEdits' = tEdits + 1
  /\ UNCHANGED <<tpc, tResult, jobVars, poolVars, ledgerVars>>

NextPages ==
  \/ \E o \in EditableOutlines : GenerateOutline(o)
  \/ StorePages
  \/ \E idx \in 0..Len(tPages), prt \in Parts : create_page(idx, prt)
  \/ \E page_id \in IdSet(tPages) : delete_page(page_id)
  \/ \E i, j \in 1..Len(tPages) :
       i < j /\ update_project(SwappedOrder(tPages, i, j))
  \/ \E o \in EditableOutlines : refine_outline(o)

SpecPages == InitOutline /\ [][NextPages]_vars

\* ------------------------------------------------- properties of SpecPages
StoredIndices == {order_index[id] : id \in IdSet(tPages)}

\* C22: after any sequence of outline generation, refinement, page creation
\* at an index, page deletion and reordering, the order_index values of the
\* project's pages are pairwise distinct and are exactly 0, 1, ..., n-1.
C22_ContiguousIndices ==
  tpc = "stored" =>
    /\ \A a, b \in IdSet(tPages) : a # b => order_index[a] # order_index[b]
    /\ StoredIndices = 0..(Len(tPages) - 1)
====
